---- MODULE Spec2Model ----
(***************************************************************************)
(* Model of src/invoice-server.ts: the `approvals` map, the four tool      *)
(* handlers of the CallToolRequestSchema handler, and the processInvoice   *)
(* workflow with its polling loop and payment steps.                       *)
(*                                                                         *)
(* The server is one single-threaded event loop, so an action is one       *)
(* synchronous run of code between two awaits: a whole tool handler, or    *)
(* the part of processInvoice between two suspension points.               *)
(*                                                                         *)
(* Time: the workflow only ever looks at Date.now() - startTime and at     *)
(* the expiry of its 1 s timer.  Both are kept per execution as counters   *)
(* in units of pollInterval that stop counting once they have reached the  *)
(* value the code compares them with.  A timer fires when its delay has    *)
(* passed, or later (setTimeout gives no upper bound).                     *)
(*                                                                         *)
(* The Resonate SDK is not part of the repository.  Two facts about it are *)
(* used: a call of a registered function with an execution id that already *)
(* exists joins the existing execution instead of starting a new one       *)
(* (WHY_RESONATE.md, "Resonate SDK checks if this execution ID exists; if  *)
(* new, starts execution"), and the function body runs in the background,  *)
(* after the call has returned to the tool handler (invoice-server.ts,     *)
(* "Start the durable workflow (non-blocking)").                           *)
(*                                                                         *)
(* Restarts of the process are part of a second specification, SpecCrash.  *)
(* Two more documented facts about the SDK are used there: ctx.run stores  *)
(* the result of a finished step, and after a restart an execution that    *)
(* had not returned is run again and gets the stored results instead of    *)
(* running those steps again (WHY_RESONATE.md, "Stores result", "Resumes   *)
(* from last stored state"; QUICKSTART.md, "resumes from the last          *)
(* successful step").                                                      *)
(*                                                                         *)
(* src/weather-server.ts is a second server with its own state.  It is     *)
(* modelled by the specification SpecWeather: the get_forecast handler,    *)
(* the getForecast workflow with its two fetches of the weather service    *)
(* (each of which returns data, returns nothing or throws) and the clock   *)
(* Date.now() the execution id is built from.  SpecLive is the invoice     *)
(* server under weak fairness of the steps of its workflows and timers.    *)
(***************************************************************************)
EXTENDS Integers, Sequences, FiniteSets, TLC

\* ---------------------------------------------------------------- bounds
\* the invoice ids the tool calls are made with
InvoiceIds == {"INV-1", "INV-2"}
MaxSubmits == 2        \* submit_invoice calls in one behaviour
MaxCrashes == 1        \* process restarts in one behaviour
Timeout == 2           \* `timeout` (5 * 60 * 1000 ms) in poll intervals
PollInterval == 1      \* `pollInterval` (1000 ms), the unit of time

\* ------------------------------------------------------------ invoice data
Consulting == [item |-> "consulting", amount |-> 100, description |-> "c"]
Expenses == [item |-> "expenses", amount |-> 50, description |-> "e"]
InvoiceLine == {Consulting, Expenses}

\* the `lines` argument of submit_invoice
LinesArg == {<<>>, <<Consulting, Expenses>>}

\* a reduce whose callback drops the accumulator: (sum, line) => line.amount
reduceSum_dropsSum(lines) ==
  IF lines = <<>> THEN 0 ELSE lines[Len(lines)].amount

RECURSIVE reduceSum(_)
\* lines.reduce((sum, line) => sum + line.amount, 0)
reduceSum(lines) ==
  IF lines = <<>> THEN 0
  ELSE reduceSum(SubSeq(lines, 1, Len(lines) - 1)) + lines[Len(lines)].amount

\* the Invoice object built by submit_invoice
Invoice(invoice_id, lines) ==
  [id |-> invoice_id, lines |-> lines, totalAmount |-> reduceSum(lines)]

\* ------------------------------------------------------------ result texts
\* A text is modelled by its parts: `kind` is the fixed part of the text and
\* `payments` the joined payment confirmations it contains.
Text(kind, payments) == [kind |-> kind, payments |-> payments]
undefined == Text("undefined", <<>>)
RejectedByUser == Text("REJECTED by user", <<>>)
RejectedTimeout == Text("REJECTED due to timeout", <<>>)
RejectedPlain == Text("REJECTED", <<>>)
\* results.join('\n')
Joined(results) == Text("", results)
\* `COMPLETED\n${results.join('\n')}`
Completed(results) == Text("COMPLETED", results)

\* JavaScript truthiness of `state.result`: undefined and "" are falsy
Truthy(r) == r # undefined /\ r # Joined(<<>>)

\* the return value of processPayment for one line
processPayment(line) == [item |-> line.item, amount |-> line.amount]

\* ------------------------------------------------- weather-server.ts: data
MaxRequests == 2       \* get_forecast calls in one behaviour
MaxNow == 1            \* the values Date.now() takes are 0..MaxNow
MaxPeriods == 6        \* periods in a forecast response: 0..MaxPeriods

\* the (latitude, longitude) arguments of get_forecast: one place, so that
\* requests differ in the time of the call only
Coordinates == {<<40, -74>>}

\* `${latitude}-${longitude}-${Date.now()}`: the three parts of the string.
\* The text of a number has a "-" only as its sign or inside an exponent, so
\* the string determines the three parts.
executionId(latitude, longitude, now_) == <<latitude, longitude, now_>>

ExecutionIds ==
  {executionId(c[1], c[2], t) : c \in Coordinates, t \in 0..MaxNow}

\* `${NWS_API_BASE}/points/${latitude},${longitude}`
pointsUrl(latitude, longitude) == <<"points", latitude, longitude>>

\* the forecast URLs a points response can name in properties.forecast
ForecastUrls == {"gridpoints/OKX", "gridpoints/LOX"}

\* the `periods` array of a forecast response with k periods
Periods(k) == [i \in 1..k |-> [name |-> i, detailedForecast |-> "f"]]

\* the text built for one period by the template of lines 99-104
FormatPeriod(period) == <<"name", period.name, "Forecast", period.detailedForecast>>

\* the forecast text without the slice: every period of the response
slice_all(periods) == periods

\* periods.slice(0, 5)
FirstPeriods == 5
slice(periods) ==
  SubSeq(periods, 1, IF Len(periods) < FirstPeriods THEN Len(periods)
                     ELSE FirstPeriods)

\* forecasts.join('\n\n---\n\n') of the formatted periods
ForecastText(periods) ==
  Text("forecasts", [i \in 1..Len(slice(periods)) |-> FormatPeriod(slice(periods)[i])])

UnableData == Text("Unable to fetch forecast data for this location.", <<>>)
UnableDetailed == Text("Unable to fetch detailed forecast.", <<>>)

\* -------------------------------------------------------------- the state
VARIABLES
  approvals,   \* the Map: invoice id -> [status, invoice, result, obj]
  wf,          \* the processInvoice execution of `invoice-${id}`
  thens,       \* .then callbacks are attached to the execution and not yet run
  reply,       \* response of the tool call made by the last step, if any
  paid,        \* history: the lines processPayment was invoked with, per id
  approveOk,   \* history: an approve_invoice call has succeeded, per id
  rejectOk,    \* history: a reject_invoice call has succeeded, per id
  nsubmit,     \* submit_invoice calls so far
  steps,       \* the results of the ctx.run steps the SDK has stored, per id
  ncrash,      \* process restarts so far
  now,         \* weather server: Date.now()
  forecasts,   \* weather server: execution id -> getForecast execution
  requests,    \* weather server: the get_forecast calls made, in order
  fetched      \* history: the URLs fetchNWS was run with, per execution id

\* the state of the weather server
wvars == <<now, forecasts, requests, fetched>>

\* the state of the invoice server
ivars == <<approvals, wf, thens, paid, approveOk, rejectOk, nsubmit, steps,
           ncrash>>

vars == <<approvals, wf, thens, reply, paid, approveOk, rejectOk, nsubmit,
          steps, ncrash, wvars>>

has(id) == id \in DOMAIN approvals

NoInvoice == Invoice("", <<>>)

\* an execution that was never invoked
NoExecution ==
  [pc |-> "none", invoice |-> NoInvoice, waited |-> 0, elapsed |-> 0,
   slept |-> 0, ref |-> 0, idx |-> 0, results |-> <<>>, ret |-> undefined]

\* a getForecast execution that has been created and has not run yet
NewForecast(latitude, longitude) ==
  [pc |-> "invoked", latitude |-> latitude, longitude |-> longitude,
   pointsData |-> "null", ret |-> undefined]

\* `request` is the number of the get_forecast call a response answers
NoReply == [tool |-> "none", id |-> "", request |-> 0, outcome |-> "none",
            status |-> "none", total |-> 0, result |-> undefined]

Init ==
  /\ approvals = <<>>
  /\ wf = [id \in InvoiceIds |-> NoExecution]
  /\ thens = [id \in InvoiceIds |-> FALSE]
  /\ reply = NoReply
  /\ paid = [id \in InvoiceIds |-> <<>>]
  /\ approveOk = [id \in InvoiceIds |-> FALSE]
  /\ rejectOk = [id \in InvoiceIds |-> FALSE]
  /\ nsubmit = 0
  /\ steps = [id \in InvoiceIds |-> <<>>]
  /\ ncrash = 0
  /\ now = 0
  /\ forecasts = <<>>
  /\ requests = <<>>
  /\ fetched = <<>>

\* a store that holds one record only: set(id, rec) drops the other ids
MapSet_single(m, id, rec) == [k \in {id} |-> rec]

\* approvals.set(id, rec)
MapSet(m, id, rec) ==
  [k \in DOMAIN m \cup {id} |-> IF k = id THEN rec ELSE m[k]]

Ok(tool, id) == [NoReply EXCEPT !.tool = tool, !.id = id, !.outcome = "ok"]
Err(tool, id, what) ==
  [NoReply EXCEPT !.tool = tool, !.id = id, !.outcome = what]

\* ------------------------------------------------------- the tool handlers

\* durableProcessInvoice(`invoice-${invoice_id}`, invoice): the SDK starts the
\* execution if the execution id is new, otherwise the call joins the
\* existing execution.
durableProcessInvoice(w, invoice) ==
  IF w.pc = "none" THEN [NoExecution EXCEPT !.pc = "invoked", !.invoice = invoice]
  ELSE w

\* submit_invoice that awaits durableProcessInvoice before it returns: the
\* step that stores the record and starts the workflow produces no response
submit_invoice_awaiting(invoice_id, lines) ==
  /\ nsubmit < MaxSubmits
  /\ nsubmit' = nsubmit + 1
  /\ LET invoice == Invoice(invoice_id, lines)
         obj == IF has(invoice_id) THEN approvals[invoice_id].obj + 1 ELSE 1
     IN /\ approvals' = MapSet(approvals, invoice_id,
                          [status |-> "pending", invoice |-> invoice,
                           result |-> undefined, obj |-> obj])
        /\ wf' = [wf EXCEPT ![invoice_id] = durableProcessInvoice(@, invoice)]
        /\ thens' = [thens EXCEPT ![invoice_id] = TRUE]
        /\ reply' = NoReply
  /\ UNCHANGED <<paid, approveOk, rejectOk, steps, ncrash, wvars>>

submit_invoice(invoice_id, lines) ==
  /\ nsubmit < MaxSubmits
  /\ nsubmit' = nsubmit + 1
  /\ LET invoice == Invoice(invoice_id, lines)
         obj == IF has(invoice_id) THEN approvals[invoice_id].obj + 1 ELSE 1
     IN /\ approvals' = MapSet(approvals, invoice_id,
                          [status |-> "pending", invoice |-> invoice,
                           result |-> undefined, obj |-> obj])
        /\ wf' = [wf EXCEPT ![invoice_id] = durableProcessInvoice(@, invoice)]
        /\ thens' = [thens EXCEPT ![invoice_id] = TRUE]
        /\ reply' = [Ok("submit_invoice", invoice_id)
                       EXCEPT !.total = invoice.totalAmount]
  /\ UNCHANGED <<paid, approveOk, rejectOk, steps, ncrash, wvars>>

\* approve_invoice without the `state.status !== 'pending'` check
approve_invoice_unguarded(invoice_id) ==
  /\ IF ~has(invoice_id)
       THEN /\ reply' = Err("approve_invoice", invoice_id, "not found")
            /\ UNCHANGED <<approvals, approveOk>>
     ELSE /\ approvals' = [approvals EXCEPT ![invoice_id].status = "approved"]
          /\ approveOk' = [approveOk EXCEPT ![invoice_id] = TRUE]
          /\ reply' = Ok("approve_invoice", invoice_id)
  /\ UNCHANGED <<wf, thens, paid, rejectOk, nsubmit, steps, ncrash, wvars>>

approve_invoice(invoice_id) ==
  /\ IF ~has(invoice_id)
       THEN /\ reply' = Err("approve_invoice", invoice_id, "not found")
            /\ UNCHANGED <<approvals, approveOk>>
     ELSE IF approvals[invoice_id].status # "pending"
       THEN /\ reply' = [Err("approve_invoice", invoice_id, "not pending")
                           EXCEPT !.status = approvals[invoice_id].status]
            /\ UNCHANGED <<approvals, approveOk>>
     ELSE /\ approvals' = [approvals EXCEPT ![invoice_id].status = "approved"]
          /\ approveOk' = [approveOk EXCEPT ![invoice_id] = TRUE]
          /\ reply' = Ok("approve_invoice", invoice_id)
  /\ UNCHANGED <<wf, thens, paid, rejectOk, nsubmit, steps, ncrash, wvars>>

\* reject_invoice that stores a rejected record for an id it does not know
reject_invoice_upsert(invoice_id) ==
  /\ IF ~has(invoice_id)
       THEN /\ approvals' = MapSet(approvals, invoice_id,
                              [status |-> "rejected", invoice |-> NoInvoice,
                               result |-> undefined, obj |-> 1])
            /\ rejectOk' = [rejectOk EXCEPT ![invoice_id] = TRUE]
            /\ reply' = Ok("reject_invoice", invoice_id)
     ELSE IF approvals[invoice_id].status # "pending"
       THEN /\ reply' = [Err("reject_invoice", invoice_id, "not pending")
                           EXCEPT !.status = approvals[invoice_id].status]
            /\ UNCHANGED <<approvals, rejectOk>>
     ELSE /\ approvals' = [approvals EXCEPT ![invoice_id].status = "rejected"]
          /\ rejectOk' = [rejectOk EXCEPT ![invoice_id] = TRUE]
          /\ reply' = Ok("reject_invoice", invoice_id)
  /\ UNCHANGED <<wf, thens, paid, approveOk, nsubmit, steps, ncrash, wvars>>

reject_invoice(invoice_id) ==
  /\ IF ~has(invoice_id)
       THEN /\ reply' = Err("reject_invoice", invoice_id, "not found")
            /\ UNCHANGED <<approvals, rejectOk>>
     ELSE IF approvals[invoice_id].status # "pending"
       THEN /\ reply' = [Err("reject_invoice", invoice_id, "not pending")
                           EXCEPT !.status = approvals[invoice_id].status]
            /\ UNCHANGED <<approvals, rejectOk>>
     ELSE /\ approvals' = [approvals EXCEPT ![invoice_id].status = "rejected"]
          /\ rejectOk' = [rejectOk EXCEPT ![invoice_id] = TRUE]
          /\ reply' = Ok("reject_invoice", invoice_id)
  /\ UNCHANGED <<wf, thens, paid, approveOk, nsubmit, steps, ncrash, wvars>>

\* the text built by check_invoice_status: the Result section is present only
\* when state.result is truthy
statusText(invoice_id, state) ==
  [Ok("check_invoice_status", invoice_id)
     EXCEPT !.status = state.status,
            !.total = state.invoice.totalAmount,
            !.result = IF Truthy(state.result) THEN state.result ELSE undefined]

\* a status query that hands the result out once: it clears state.result
\* after building the text
check_invoice_status_consuming(invoice_id) ==
  /\ reply' = IF ~has(invoice_id)
                THEN Err("check_invoice_status", invoice_id, "not found")
                ELSE statusText(invoice_id, approvals[invoice_id])
  /\ approvals' = IF has(invoice_id)
                    THEN [approvals EXCEPT ![invoice_id].result = undefined]
                  ELSE approvals
  /\ UNCHANGED <<wf, thens, paid, approveOk, rejectOk, nsubmit, steps, ncrash, wvars>>

check_invoice_status(invoice_id) ==
  /\ reply' = IF ~has(invoice_id)
                THEN Err("check_invoice_status", invoice_id, "not found")
                ELSE statusText(invoice_id, approvals[invoice_id])
  /\ UNCHANGED <<approvals, wf, thens, paid, approveOk, rejectOk, nsubmit, steps, ncrash, wvars>>

\* ------------------------------------------------- the processInvoice steps

\* `return text` of the workflow
Return(w, text) ==
  [w EXCEPT !.pc = "done", !.ret = text, !.elapsed = 0, !.slept = 0,
            !.ref = 0, !.idx = 0, !.results = <<>>]

\* lines 114-143 with the auto-reject taken whenever the loop was left by the
\* timeout, without looking at the status again
AfterLoop_rejectOnExit(w, state) ==
  IF state.status = "pending" \/ w.elapsed >= Timeout
    THEN [status |-> "rejected", result |-> state.result,
          w |-> Return(w, RejectedTimeout)]
  ELSE IF state.status = "approved"
    THEN IF w.invoice.lines = <<>>
           THEN [status |-> "completed", result |-> Joined(<<>>),
                 w |-> Return(w, Completed(<<>>))]
         ELSE [status |-> "processing", result |-> state.result,
               w |-> [w EXCEPT !.pc = "run", !.ref = state.obj, !.idx = 1,
                                !.results = <<>>, !.elapsed = 0, !.slept = 0]]
  ELSE [status |-> state.status, result |-> state.result,
        w |-> Return(w, RejectedPlain)]

\* Lines 114-143, entered with the record `state` of approvals.get(invoiceId):
\* the new status of that record, its new result, and the execution.
AfterLoop(w, state) ==
  IF state.status = "pending"
    THEN [status |-> "rejected", result |-> state.result,
          w |-> Return(w, RejectedTimeout)]
  ELSE IF state.status = "approved"
    THEN IF w.invoice.lines = <<>>
           THEN [status |-> "completed", result |-> Joined(<<>>),
                 w |-> Return(w, Completed(<<>>))]
         ELSE [status |-> "processing", result |-> state.result,
               w |-> [w EXCEPT !.pc = "run", !.ref = state.obj, !.idx = 1,
                                !.results = <<>>, !.elapsed = 0, !.slept = 0]]
  ELSE [status |-> state.status, result |-> state.result,
        w |-> Return(w, RejectedPlain)]

\* One evaluation of the while condition and of the loop body (lines 99-112),
\* followed by lines 114-143 when the loop is left.
Loop(w, state) ==
  IF w.elapsed < Timeout
    THEN IF state.status = "approved" THEN AfterLoop(w, state)
         ELSE IF state.status = "rejected"
           THEN [status |-> state.status, result |-> state.result,
                 w |-> Return(w, RejectedByUser)]
         ELSE [status |-> state.status, result |-> state.result,
               w |-> [w EXCEPT !.pc = "sleep", !.slept = 0]]
  ELSE AfterLoop(w, state)

\* the writes go to the object that approvals.get returned, if there was one
Store(invoice_id, r) ==
  /\ approvals' = IF has(invoice_id)
                    THEN [approvals EXCEPT ![invoice_id].status = r.status,
                                           ![invoice_id].result = r.result]
                  ELSE approvals
  /\ wf' = [wf EXCEPT ![invoice_id] = r.w]

\* approvals.get(id) when the map has no record of id: `state?.status` is
\* undefined
Missing ==
  [status |-> "undefined", invoice |-> NoInvoice, result |-> undefined,
   obj |-> 0]

\* approvals.get(id)
Get(id) == IF has(id) THEN approvals[id] ELSE Missing

\* lines 86-96: the status is set to pending (if (state)) and the clock is
\* started
Enter(state) ==
  IF state = Missing THEN state ELSE [state EXCEPT !.status = "pending"]

\* the execution starts running: lines 86-111 up to the first sleep
processInvoice_start(invoice_id) ==
  /\ wf[invoice_id].pc = "invoked"
  /\ Store(invoice_id,
           Loop([wf[invoice_id] EXCEPT !.elapsed = 0, !.waited = 0],
                Enter(Get(invoice_id))))
  /\ UNCHANGED <<thens, paid, approveOk, rejectOk, nsubmit, steps, ncrash, wvars>>
  /\ reply' = NoReply

\* the poll timer fires: the next iteration of the loop
\* a poll loop that waits by spinning instead of awaiting a timer: it holds
\* the only thread, so a workflow polls only when no other one is waiting
processInvoice_poll_spinning(invoice_id) ==
  /\ \A other \in InvoiceIds \ {invoice_id} : wf[other].pc # "sleep"
  /\ wf[invoice_id].pc = "sleep"
  /\ wf[invoice_id].slept >= PollInterval
  /\ Store(invoice_id, Loop(wf[invoice_id], Get(invoice_id)))
  /\ UNCHANGED <<thens, paid, approveOk, rejectOk, nsubmit, steps, ncrash, wvars>>
  /\ reply' = NoReply

processInvoice_poll(invoice_id) ==
  /\ wf[invoice_id].pc = "sleep"
  /\ wf[invoice_id].slept >= PollInterval
  /\ Store(invoice_id, Loop(wf[invoice_id], Get(invoice_id)))
  /\ UNCHANGED <<thens, paid, approveOk, rejectOk, nsubmit, steps, ncrash, wvars>>
  /\ reply' = NoReply

\* finalState.status = 'completed'; finalState.result = ...: finalState is the
\* object read at line 114, which is in the map only while no later submit
\* has replaced it
WriteFinalState(m, invoice_id, ref, results) ==
  IF invoice_id \in DOMAIN m /\ m[invoice_id].obj = ref
    THEN [m EXCEPT ![invoice_id].status = "completed",
                   ![invoice_id].result = Joined(results)]
  ELSE m

\* results.push(result), then the next line or the end of the for loop
\* (lines 133-139)
Push(invoice_id, result) ==
  LET w == wf[invoice_id]
      results == Append(w.results, result)
  IN IF w.idx < Len(w.invoice.lines)
       THEN /\ wf' = [wf EXCEPT ![invoice_id] =
                        [w EXCEPT !.pc = "run", !.idx = w.idx + 1,
                                  !.results = results]]
            /\ UNCHANGED approvals
     ELSE /\ wf' = [wf EXCEPT ![invoice_id] = Return(w, Completed(results))]
          /\ approvals' = WriteFinalState(approvals, invoice_id, w.ref, results)

\* ctx.run that invokes processPayment whether or not the step has a stored
\* result
ctx_run_nocache(invoice_id) ==
  /\ wf[invoice_id].pc = "run"
  /\ wf' = [wf EXCEPT ![invoice_id].pc = "paying"]
  /\ paid' = [paid EXCEPT ![invoice_id] =
                Append(@, wf[invoice_id].invoice.lines[wf[invoice_id].idx])]
  /\ UNCHANGED <<approvals, thens, approveOk, rejectOk, nsubmit, steps, ncrash, wvars>>
  /\ reply' = NoReply

\* ctx.run(processPayment, line): a step whose result the SDK has stored
\* yields that result; otherwise processPayment is invoked for line idx
ctx_run(invoice_id) ==
  /\ wf[invoice_id].pc = "run"
  /\ IF wf[invoice_id].idx <= Len(steps[invoice_id])
       THEN /\ Push(invoice_id, steps[invoice_id][wf[invoice_id].idx])
            /\ UNCHANGED paid
     ELSE /\ wf' = [wf EXCEPT ![invoice_id].pc = "paying"]
          /\ paid' = [paid EXCEPT ![invoice_id] =
                        Append(@, wf[invoice_id].invoice.lines[wf[invoice_id].idx])]
          /\ UNCHANGED approvals
  /\ UNCHANGED <<thens, approveOk, rejectOk, nsubmit, steps, ncrash, wvars>>
  /\ reply' = NoReply

\* processPayment returns: the SDK stores the result of the step and the
\* workflow goes on with it
processPayment_return(invoice_id) ==
  /\ wf[invoice_id].pc = "paying"
  /\ LET w == wf[invoice_id]
         result == processPayment(w.invoice.lines[w.idx])
     IN /\ Push(invoice_id, result)
        /\ steps' = [steps EXCEPT ![invoice_id] = Append(@, result)]
  /\ UNCHANGED <<thens, paid, approveOk, rejectOk, nsubmit, ncrash, wvars>>
  /\ reply' = NoReply

\* the .then callbacks of submit_invoice run once the execution has returned:
\* state.result = result.  Callbacks attached by several submit_invoice calls
\* run back to back and store the same value into the same record.
then_callback(invoice_id) ==
  /\ wf[invoice_id].pc = "done"
  /\ thens[invoice_id]
  /\ thens' = [thens EXCEPT ![invoice_id] = FALSE]
  /\ approvals' = IF has(invoice_id)
                    THEN [approvals EXCEPT ![invoice_id].result = wf[invoice_id].ret]
                  ELSE approvals
  /\ UNCHANGED <<wf, paid, approveOk, rejectOk, nsubmit, steps, ncrash, wvars>>
  /\ reply' = NoReply

Min(a, b) == IF a < b THEN a ELSE b

\* time passes by one poll interval
Tick ==
  /\ \E id \in InvoiceIds :
       \/ wf[id].pc = "sleep" /\
          (wf[id].elapsed < Timeout \/ wf[id].slept < PollInterval)
       \/ wf[id].pc = "invoked" /\ wf[id].waited < PollInterval
  /\ wf' = [id \in InvoiceIds |->
              IF wf[id].pc = "sleep"
                THEN [wf[id] EXCEPT !.elapsed = Min(@ + 1, Timeout),
                                    !.slept = Min(@ + 1, PollInterval)]
              ELSE IF wf[id].pc = "invoked"
                THEN [wf[id] EXCEPT !.waited = Min(@ + 1, PollInterval)]
              ELSE wf[id]]
  /\ UNCHANGED <<approvals, thens, paid, approveOk, rejectOk, nsubmit, steps, ncrash, wvars>>
  /\ reply' = NoReply

\* a tool name that is none of the four of the invoice server
UnknownTools == {"cancel_invoice"}

\* a dispatcher whose last branch answers instead of throwing
unknown_tool_answered(name) ==
  /\ reply' = Ok(name, "")
  /\ UNCHANGED <<ivars, wvars>>

\* throw new Error(`Unknown tool: ${name}`)
unknown_tool(name) ==
  /\ reply' = Err(name, "", "Unknown tool")
  /\ UNCHANGED <<ivars, wvars>>

Next ==
  \/ \E id \in InvoiceIds, lines \in LinesArg : submit_invoice(id, lines)
  \/ \E id \in InvoiceIds : approve_invoice(id)
  \/ \E id \in InvoiceIds : reject_invoice(id)
  \/ \E id \in InvoiceIds : check_invoice_status(id)
  \/ \E id \in InvoiceIds : processInvoice_start(id)
  \/ \E id \in InvoiceIds : processInvoice_poll(id)
  \/ \E id \in InvoiceIds : ctx_run(id)
  \/ \E id \in InvoiceIds : processPayment_return(id)
  \/ \E id \in InvoiceIds : then_callback(id)
  \/ Tick

Spec == Init /\ [][Next]_vars

\* ------------------------------------------------------- process restarts
\* The process crashes and is started again.  The `approvals` Map and the
\* .then callbacks live in the memory of the process and are gone.  The
\* executions and the results of their finished steps are kept by the SDK
\* (WHY_RESONATE.md, "Resonate SDK checks pending executions / Resumes from
\* last stored state"): an execution that had not returned is run again from
\* the top of processInvoice with its stored arguments.
Resumed(w) ==
  IF w.pc \in {"none", "done"} THEN w
  ELSE [NoExecution EXCEPT !.pc = "invoked", !.invoice = w.invoice,
                           !.waited = Min(w.waited + w.elapsed, PollInterval)]

Crash ==
  /\ ncrash < MaxCrashes
  /\ ncrash' = ncrash + 1
  /\ approvals' = <<>>
  /\ thens' = [id \in InvoiceIds |-> FALSE]
  /\ wf' = [id \in InvoiceIds |-> Resumed(wf[id])]
  /\ reply' = NoReply
  /\ UNCHANGED <<paid, approveOk, rejectOk, nsubmit, steps, wvars>>

\* the invoice ids used in the behaviours with restarts
CrashIds == {"INV-1"}

NextCrash ==
  \/ \E id \in CrashIds, lines \in LinesArg : submit_invoice(id, lines)
  \/ \E id \in CrashIds : approve_invoice(id)
  \/ \E id \in CrashIds : reject_invoice(id)
  \/ \E id \in CrashIds : check_invoice_status(id)
  \/ \E id \in CrashIds : processInvoice_start(id)
  \/ \E id \in CrashIds : processInvoice_poll(id)
  \/ \E id \in CrashIds : ctx_run(id)
  \/ \E id \in CrashIds : processPayment_return(id)
  \/ \E id \in CrashIds : then_callback(id)
  \/ \E name \in UnknownTools : unknown_tool(name)
  \/ Tick
  \/ Crash

SpecCrash == Init /\ [][NextCrash]_vars

\* ------------------------------------------------------------- progress
\* The event loop of a process that keeps running runs every timer that is
\* due and every continuation of a settled promise: a workflow step or a
\* .then callback that stays possible is taken, and time goes on.  Tool calls
\* are made by the client and are never forced.
LiveIds == {"INV-1"}

NextLive ==
  \/ \E id \in LiveIds, lines \in LinesArg : submit_invoice(id, lines)
  \/ \E id \in LiveIds : approve_invoice(id)
  \/ \E id \in LiveIds : reject_invoice(id)
  \/ \E id \in LiveIds : check_invoice_status(id)
  \/ \E id \in LiveIds : processInvoice_start(id)
  \/ \E id \in LiveIds : processInvoice_poll(id)
  \/ \E id \in LiveIds : ctx_run(id)
  \/ \E id \in LiveIds : processPayment_return(id)
  \/ \E id \in LiveIds : then_callback(id)
  \/ \E name \in UnknownTools : unknown_tool(name)
  \/ Tick

Fairness ==
  /\ \A id \in LiveIds :
       /\ WF_vars(processInvoice_start(id))
       /\ WF_vars(processInvoice_poll(id))
       /\ WF_vars(ctx_run(id))
       /\ WF_vars(processPayment_return(id))
       /\ WF_vars(then_callback(id))
  /\ WF_vars(Tick)

SpecLive == Init /\ [][NextLive]_vars /\ Fairness

\* ------------------------------------------------------- weather-server.ts
\* The weather server is a process of its own: its steps leave the state of
\* the invoice server alone.  As for processInvoice, a call of
\* durableGetForecast with an id that exists joins the execution of that id,
\* and the body of getForecast runs after the call has returned.  ctx.run of
\* fetchNWS ends with the parsed response, which can be null, or with the
\* error of fetchNWS once the SDK has given up on it.

\* durableGetForecast(executionId, latitude, longitude) on the executions m
durableGetForecast(m, e, latitude, longitude) ==
  IF e \in DOMAIN m THEN m
  ELSE [k \in DOMAIN m \cup {e} |->
          IF k = e THEN NewForecast(latitude, longitude) ELSE m[k]]

\* the get_forecast handler up to `await durableGetForecast(...)`
get_forecast(latitude, longitude) ==
  /\ Len(requests) < MaxRequests
  /\ LET e == executionId(latitude, longitude, now)
     IN /\ requests' = Append(requests, [executionId |-> e, answered |-> FALSE])
        /\ forecasts' = durableGetForecast(forecasts, e, latitude, longitude)
        /\ fetched' = IF e \in DOMAIN fetched THEN fetched
                      ELSE [k \in DOMAIN fetched \cup {e} |->
                              IF k = e THEN <<>> ELSE fetched[k]]
  /\ reply' = NoReply
  /\ UNCHANGED <<now, ivars>>

\* getForecast up to the first await: ctx.run(fetchNWS, pointsUrl)
getForecast_start(e) ==
  /\ e \in DOMAIN forecasts
  /\ forecasts[e].pc = "invoked"
  /\ forecasts' = [forecasts EXCEPT ![e].pc = "points"]
  /\ fetched' = [fetched EXCEPT
                   ![e] = Append(@, pointsUrl(forecasts[e].latitude,
                                              forecasts[e].longitude))]
  /\ reply' = NoReply
  /\ UNCHANGED <<now, requests, ivars>>

\* what ctx.run(fetchNWS, url) can end with
Outcomes == {"data", "null", "throws"}

\* getForecast without the `if (!pointsData)` return: it goes on to the
\* forecast fetch whatever the points fetch has returned
getForecast_points_unchecked(e, outcome, forecast) ==
  /\ e \in DOMAIN forecasts
  /\ forecasts[e].pc = "points"
  /\ forecasts' =
       [forecasts EXCEPT
          ![e] = IF outcome = "throws" THEN [@ EXCEPT !.pc = "failed"]
                 ELSE IF outcome = "null" THEN [@ EXCEPT !.pc = "delay"]
                 ELSE [@ EXCEPT !.pc = "delay", !.pointsData = forecast]]
  /\ reply' = NoReply
  /\ UNCHANGED <<now, requests, fetched, ivars>>

\* the points fetch has ended: lines 79-87
getForecast_points(e, outcome, forecast) ==
  /\ e \in DOMAIN forecasts
  /\ forecasts[e].pc = "points"
  /\ forecasts' =
       [forecasts EXCEPT
          ![e] = IF outcome = "throws" THEN [@ EXCEPT !.pc = "failed"]
                 ELSE IF outcome = "null"
                   THEN [@ EXCEPT !.pc = "done", !.ret = UnableData]
                 ELSE [@ EXCEPT !.pc = "delay", !.pointsData = forecast]]
  /\ reply' = NoReply
  /\ UNCHANGED <<now, requests, fetched, ivars>>

\* the 1 s delay is over: ctx.run(fetchNWS, pointsData.properties.forecast)
getForecast_delay(e) ==
  /\ e \in DOMAIN forecasts
  /\ forecasts[e].pc = "delay"
  /\ forecasts' = [forecasts EXCEPT ![e].pc = "forecast"]
  /\ fetched' = [fetched EXCEPT ![e] = Append(@, forecasts[e].pointsData)]
  /\ reply' = NoReply
  /\ UNCHANGED <<now, requests, ivars>>

\* the forecast fetch has ended: lines 91-106
getForecast_forecast(e, outcome, k) ==
  /\ e \in DOMAIN forecasts
  /\ forecasts[e].pc = "forecast"
  /\ forecasts' =
       [forecasts EXCEPT
          ![e] = IF outcome = "throws" THEN [@ EXCEPT !.pc = "failed"]
                 ELSE IF outcome = "null"
                   THEN [@ EXCEPT !.pc = "done", !.ret = UnableDetailed]
                 ELSE [@ EXCEPT !.pc = "done",
                                !.ret = ForecastText(Periods(k))]]
  /\ reply' = NoReply
  /\ UNCHANGED <<now, requests, fetched, ivars>>

\* the get_forecast handler after the await: the result is the text of the
\* response, or the handler throws the error of the execution
get_forecast_return(r) ==
  /\ r \in 1..Len(requests)
  /\ ~requests[r].answered
  /\ forecasts[requests[r].executionId].pc \in {"done", "failed"}
  /\ requests' = [requests EXCEPT ![r].answered = TRUE]
  /\ LET e == requests[r].executionId
     IN reply' = IF forecasts[e].pc = "failed"
                   THEN [Err("get_forecast", "", "error") EXCEPT !.request = r]
                 ELSE [Ok("get_forecast", "") EXCEPT !.request = r,
                                                     !.result = forecasts[e].ret]
  /\ UNCHANGED <<now, forecasts, fetched, ivars>>

\* a tool name that is not get_forecast
WeatherUnknownTools == {"get_alerts"}

\* throw new Error(`Unknown tool: ${request.params.name}`)
weather_unknown_tool(name) ==
  /\ reply' = Err(name, "", "Unknown tool")
  /\ UNCHANGED <<ivars, wvars>>

\* Date.now() has a new value
Date_now ==
  /\ now < MaxNow
  /\ now' = now + 1
  /\ reply' = NoReply
  /\ UNCHANGED <<forecasts, requests, fetched, ivars>>

NextWeather ==
  \/ \E c \in Coordinates : get_forecast(c[1], c[2])
  \/ \E e \in ExecutionIds : getForecast_start(e)
  \/ \E e \in ExecutionIds, outcome \in Outcomes, forecast \in ForecastUrls :
       getForecast_points(e, outcome, forecast)
  \/ \E e \in ExecutionIds : getForecast_delay(e)
  \/ \E e \in ExecutionIds, outcome \in Outcomes, k \in 0..MaxPeriods :
       getForecast_forecast(e, outcome, k)
  \/ \E r \in 1..MaxRequests : get_forecast_return(r)
  \/ \E name \in WeatherUnknownTools : weather_unknown_tool(name)
  \/ Date_now

SpecWeather == Init /\ [][NextWeather]_vars

\* ------------------------------------------------------------------ claims
Terminal == {"completed", "rejected"}

\* what a record holds, apart from the identity of the object
Content(state) ==
  [status |-> state.status, invoice |-> state.invoice, result |-> state.result]

\* the transition table of the approval gate
Transitions ==
  {<<"pending", "approved">>, <<"approved", "processing">>,
   <<"processing", "completed">>, <<"pending", "rejected">>}

\* C1: in every step the stored status of every invoice id either stays as it
\* is or moves along pending->approved, approved->processing,
\* processing->completed or pending->rejected; it never returns to pending.
C1_StatusTransitions ==
  [][\A id \in DOMAIN approvals :
       /\ id \in DOMAIN approvals'
       /\ \/ approvals'[id].status = approvals[id].status
          \/ <<approvals[id].status, approvals'[id].status>> \in Transitions]_vars

\* C2: a submit_invoice call for an invoice id that already has a record
\* leaves that record (status, invoice lines, total, result) as it is and
\* starts no second execution.
C2_SubmitIdempotent ==
  [][\A id \in DOMAIN approvals :
       (reply'.tool = "submit_invoice" /\ reply'.id = id)
         => /\ Content(approvals'[id]) = Content(approvals[id])
            /\ wf'[id] = wf[id]]_vars

\* the payment confirmations of the lines of an invoice, in order
Confirmations(lines) == [i \in 1..Len(lines) |-> processPayment(lines[i])]

\* the execution of id returns in this step
Returns(id) == wf[id].pc # "done" /\ wf'[id].pc = "done"

\* C3: an approve_invoice call and the workflow's timeout check of the same
\* invoice, in either order: a timeout check that finds the invoice approved
\* does not reject it but starts the payments; an approve_invoice call that
\* finds the invoice rejected fails and changes nothing; and an execution
\* returns either by the timeout, rejected and with no payment run, or
\* completed, with the payments of all its lines run, never both.
C3_ApproveTimeoutRace ==
  [][\A id \in DOMAIN approvals :
       /\ (wf[id].pc = "sleep" /\ wf'[id].pc # "sleep"
             /\ approvals[id].status = "approved")
            => /\ approvals'[id].status \in {"processing", "completed"}
               /\ wf'[id].pc \in {"run", "done"}
               /\ wf'[id].ret \in {undefined, Completed(<<>>)}
       /\ (reply'.tool = "approve_invoice" /\ reply'.id = id
             /\ approvals[id].status = "rejected")
            => /\ approvals' = approvals
               /\ reply'.outcome = "not pending"
       /\ (Returns(id) /\ wf'[id].ret = RejectedTimeout)
            => /\ approvals[id].status = "pending"
               /\ approvals'[id].status = "rejected"
               /\ paid'[id] = <<>>
       /\ (Returns(id) /\ wf'[id].ret.kind = "COMPLETED")
            => /\ wf'[id].ret = Completed(Confirmations(wf[id].invoice.lines))
               /\ paid'[id] = wf[id].invoice.lines]_vars

\* C3 witness: an approve_invoice call has lost against the timeout
C3_Witness ==
  /\ reply.tool = "approve_invoice"
  /\ reply.outcome = "not pending"
  /\ reply.id \in DOMAIN approvals
  /\ approvals[reply.id].status = "rejected"
  /\ wf[reply.id].ret = RejectedTimeout
  /\ approveOk[reply.id] = FALSE

\* C4: processPayment is invoked for an invoice only after an approve_invoice
\* call for its id has succeeded, and no payment step runs while the stored
\* status of the invoice is pending.
C4_PaymentOnlyAfterApproval ==
  \A id \in InvoiceIds :
    /\ paid[id] # <<>> => approveOk[id]
    /\ wf[id].pc = "paying" => (has(id) /\ approvals[id].status # "pending")

\* C5: once an execution is rejected, by a successful reject_invoice call or
\* by the timeout, no payment step has run or runs for it, and the workflow
\* returns a rejection result.
C5_RejectedNeverPays ==
  \A id \in InvoiceIds :
    (rejectOk[id] \/ wf[id].ret = RejectedTimeout)
      => /\ paid[id] = <<>>
         /\ wf[id].pc = "done"
              => wf[id].ret \in {RejectedByUser, RejectedTimeout, RejectedPlain}

\* C6: after a successful approve_invoice call, once the workflow has
\* returned and its result is recorded, check_invoice_status reports completed
\* with one payment confirmation per line item: the approval is never lost.
C6_ApprovalNeverLost ==
  \A id \in DOMAIN approvals :
    (approveOk[id] /\ wf[id].pc = "done" /\ ~thens[id])
      => /\ statusText(id, approvals[id]).status = "completed"
         /\ statusText(id, approvals[id]).result =
              Completed(Confirmations(approvals[id].invoice.lines))

\* C7: an approve_invoice or reject_invoice call on an invoice whose status is
\* not pending fails with the not-pending error and leaves every stored
\* record, its status included, unchanged.
C7_DecideNotPending ==
  [][\A id \in DOMAIN approvals :
       (reply'.tool \in {"approve_invoice", "reject_invoice"} /\ reply'.id = id
          /\ approvals[id].status # "pending")
         => /\ reply'.outcome = "not pending"
            /\ approvals' = approvals
            /\ wf' = wf]_vars

\* C7 witness: an approve_invoice call on a completed invoice has failed
C7_Witness ==
  /\ reply.tool = "approve_invoice"
  /\ reply.outcome = "not pending"
  /\ reply.id \in DOMAIN approvals
  /\ approvals[reply.id].status = "completed"

\* C8: approve_invoice, reject_invoice and check_invoice_status called with an
\* invoice id that was never submitted fail with the not-found error, create
\* no record and change no existing record.
C8_UnknownInvoice ==
  [][(reply'.tool \in {"approve_invoice", "reject_invoice", "check_invoice_status"}
        /\ reply'.id \notin DOMAIN approvals)
       => /\ reply'.outcome = "not found"
          /\ approvals' = approvals
          /\ wf' = wf]_vars

\* C8 witness: a reject_invoice call for an unknown id has failed while
\* another invoice has a record
C8_Witness ==
  /\ reply.tool = "reject_invoice"
  /\ reply.outcome = "not found"
  /\ reply.id \notin DOMAIN approvals
  /\ approvals # <<>>

\* C9: once the status of an invoice is completed or rejected, no step
\* changes its status, its invoice or its result, so check_invoice_status
\* returns the same text from then on.
C9_TerminalImmutable ==
  [][\A id \in DOMAIN approvals :
       approvals[id].status \in Terminal
         => /\ id \in DOMAIN approvals'
            /\ Content(approvals'[id]) = Content(approvals[id])
            /\ statusText(id, approvals'[id]) = statusText(id, approvals[id])]_vars

\* the deadline startTime + timeout of the execution of id has passed
DeadlinePassed(id) ==
  \/ wf[id].pc = "sleep" /\ wf[id].elapsed >= Timeout
  \/ wf[id].pc = "done" /\ wf[id].ret = RejectedTimeout

\* C10: with no approve or reject decision made, check_invoice_status at any
\* time after the deadline reports status rejected with the timeout result.
C10_TimeoutReported ==
  \A id \in DOMAIN approvals :
    (~approveOk[id] /\ ~rejectOk[id] /\ DeadlinePassed(id))
      => /\ statusText(id, approvals[id]).status = "rejected"
         /\ statusText(id, approvals[id]).result = RejectedTimeout

\* C11: the stored result of a completed invoice holds exactly one payment
\* confirmation per line item of the stored invoice, in the order of its
\* lines.
C11_ResultPerLine ==
  \A id \in DOMAIN approvals :
    approvals[id].status = "completed"
      => approvals[id].result \in
           {Joined(Confirmations(approvals[id].invoice.lines)),
            Completed(Confirmations(approvals[id].invoice.lines))}

\* C12: a restart of the process while an invoice is pending leaves the
\* invoice known with the status it had: check_invoice_status still finds it
\* pending and approve_invoice is still accepted.
C12_PendingSurvivesRestart ==
  [][ncrash' # ncrash
       => \A id \in DOMAIN approvals :
            approvals[id].status = "pending"
              => /\ id \in DOMAIN approvals'
                 /\ approvals'[id].status = "pending"]_vars

C14_DeadlineFixed ==
  [][\A id \in InvoiceIds :
       (wf[id].pc = "invoked" /\ wf'[id].pc = "sleep")
         => wf'[id].elapsed = wf[id].waited]_vars

\* C15: submit_invoice returns its acknowledgement in the step that stores the
\* record and starts the workflow: at that point the status is pending, a new
\* execution has not run a statement and no payment has been made; and while
\* a workflow waits in its poll loop, approve_invoice, reject_invoice and
\* check_invoice_status calls for any invoice can be served.
C15_SubmitNonBlocking ==
  /\ [][nsubmit' # nsubmit
          => /\ reply'.tool = "submit_invoice"
             /\ reply'.outcome = "ok"
             /\ reply'.id \in DOMAIN approvals'
             /\ approvals'[reply'.id].status = "pending"
             /\ wf[reply'.id].pc = "none" => wf'[reply'.id].pc = "invoked"
             /\ paid' = paid]_vars
  /\ [](\A id \in InvoiceIds :
          wf[id].pc = "sleep"
            => \A other \in InvoiceIds :
                 /\ ENABLED approve_invoice(other)
                 /\ ENABLED reject_invoice(other)
                 /\ ENABLED check_invoice_status(other))

\* C15 witness: submit_invoice has just answered for a new invoice whose
\* workflow has not started, while the workflow of another invoice waits
C15_Witness ==
  /\ reply.tool = "submit_invoice"
  /\ reply.outcome = "ok"
  /\ wf[reply.id].pc = "invoked"
  /\ approvals[reply.id].status = "pending"
  /\ \E other \in InvoiceIds : wf[other].pc = "sleep"

\* C16: invoking processInvoice again for an invoice whose execution has
\* returned and whose status is completed or rejected yields the stored
\* return value and changes nothing: the status stays as it is, the
\* execution does not start to poll and no payment is made.
C16_TerminalReinvoke ==
  [][\A id \in DOMAIN approvals :
       (nsubmit' # nsubmit /\ reply'.id = id
          /\ wf[id].pc = "done" /\ approvals[id].status \in Terminal)
         => /\ approvals'[id].status = approvals[id].status
            /\ wf'[id] = wf[id]
            /\ paid' = paid]_vars

\* the status of id becomes rejected in this step
BecomesRejected(id) ==
  /\ id \in DOMAIN approvals'
  /\ approvals'[id].status = "rejected"
  /\ id \in DOMAIN approvals => approvals[id].status # "rejected"

\* C17: the status of an invoice becomes rejected only in a successful
\* reject_invoice call on the pending invoice or in the workflow's timeout
\* check that finds it still pending; and a workflow that returns without
\* having completed the payments returns after one of these two: by the
\* timeout that rejects the pending invoice, or with the invoice rejected by
\* a reject_invoice call.
C17_RejectedOnlyByDecisionOrTimeout ==
  [][\A id \in InvoiceIds :
       /\ BecomesRejected(id)
            => /\ id \in DOMAIN approvals
               /\ approvals[id].status = "pending"
               /\ \/ /\ reply' = Ok("reject_invoice", id)
                     /\ wf' = wf
                  \/ /\ Returns(id)
                     /\ wf[id].elapsed >= Timeout
                     /\ wf'[id].ret = RejectedTimeout
                     /\ reply' = NoReply
       /\ (Returns(id) /\ wf'[id].ret.kind # "COMPLETED")
            => \/ /\ wf'[id].ret = RejectedTimeout
                  /\ BecomesRejected(id)
               \/ /\ wf'[id].ret \in {RejectedByUser, RejectedPlain}
                  /\ rejectOk[id]
                  /\ approvals[id].status = "rejected"
                  /\ approvals' = approvals]_vars

RECURSIVE SumOfAmounts(_)
\* the sum of the amounts of the lines, from the first to the last
SumOfAmounts(lines) ==
  IF lines = <<>> THEN 0
  ELSE Head(lines).amount + SumOfAmounts(Tail(lines))

\* C19: the invoice stored by submit_invoice has the submitted id and a total
\* equal to the sum of the amounts of its lines, submit_invoice and
\* check_invoice_status report that total, and no step other than a
\* submit_invoice call changes the invoice of a record or of an execution.
C19_InvoiceImmutable ==
  /\ [](\A id \in DOMAIN approvals :
          /\ approvals[id].invoice.id = id
          /\ approvals[id].invoice.lines \in LinesArg
          /\ approvals[id].invoice.totalAmount =
               SumOfAmounts(approvals[id].invoice.lines))
  /\ [][/\ (reply'.tool \in {"submit_invoice", "check_invoice_status"}
             /\ reply'.outcome = "ok")
            => reply'.total = SumOfAmounts(approvals'[reply'.id].invoice.lines)
        /\ \A id \in DOMAIN approvals :
             nsubmit' = nsubmit
               => /\ id \in DOMAIN approvals'
                  /\ approvals'[id].invoice = approvals[id].invoice
        /\ \A id \in InvoiceIds :
             wf[id].pc # "none" => wf'[id].invoice = wf[id].invoice]_vars

\* C19 witness: check_invoice_status reports the total 150 of a completed
\* invoice with the lines consulting 100 and expenses 50
C19_Witness ==
  /\ reply.tool = "check_invoice_status"
  /\ reply.outcome = "ok"
  /\ reply.total = Consulting.amount + Expenses.amount
  /\ approvals[reply.id].status = "completed"
  /\ approvals[reply.id].invoice.lines = <<Consulting, Expenses>>
  /\ paid[reply.id] = <<Consulting, Expenses>>

\* time passes in this step: a timer or a wait of some execution advances
TimePasses ==
  \E id \in InvoiceIds :
    \/ wf'[id].waited > wf[id].waited
    \/ wf'[id].elapsed > wf[id].elapsed
    \/ wf'[id].slept > wf[id].slept

\* C20: while the workflow of invoice a waits in its poll loop with a pending,
\* every step of another invoice b that b's own state allows can be taken
\* (submit, approve, start, poll, payment), and no step of b other than the
\* passing of time changes the record or the execution of a.
C20_WaitDoesNotBlock ==
  /\ [](\A a \in DOMAIN approvals, b \in InvoiceIds :
          (a # b /\ wf[a].pc = "sleep" /\ approvals[a].status = "pending")
            => /\ nsubmit < MaxSubmits
                    => \A lines \in LinesArg : ENABLED submit_invoice(b, lines)
               /\ ENABLED approve_invoice(b)
               /\ wf[b].pc = "invoked" => ENABLED processInvoice_start(b)
               /\ (wf[b].pc = "sleep" /\ wf[b].slept >= PollInterval)
                    => ENABLED processInvoice_poll(b)
               /\ wf[b].pc = "run" => ENABLED ctx_run(b)
               /\ wf[b].pc = "paying" => ENABLED processPayment_return(b))
  /\ [][\A a \in DOMAIN approvals, b \in InvoiceIds :
          (a # b /\ wf[a].pc = "sleep" /\ approvals[a].status = "pending"
             /\ (wf'[b] # wf[b] \/ reply'.id = b)
             /\ ~TimePasses)
            => /\ approvals'[a] = approvals[a]
               /\ wf'[a] = wf[a]]_vars

\* C20 witness: invoice b has been approved and paid and is completed while
\* invoice a is still pending and its workflow waits
C20_Witness ==
  \E a, b \in DOMAIN approvals :
    /\ a # b
    /\ wf[a].pc = "sleep"
    /\ approvals[a].status = "pending"
    /\ approvals[b].status = "completed"
    /\ wf[b].ret = Completed(Confirmations(approvals[b].invoice.lines))
    /\ paid[b] = <<Consulting, Expenses>>

\* C22: the payment steps of an execution run one after another in the order
\* of its lines: when the step of line idx is started or in flight, the steps
\* of the lines before it have returned and no later one has been started;
\* and the status of the invoice is processing from the start of the first
\* step until the last one has returned.
C22_PaymentsSequential ==
  \A id \in InvoiceIds :
    wf[id].pc \in {"run", "paying"}
      => /\ wf[id].results =
              Confirmations(SubSeq(wf[id].invoice.lines, 1, wf[id].idx - 1))
         /\ paid[id] =
              SubSeq(wf[id].invoice.lines, 1,
                     IF wf[id].pc = "paying" THEN wf[id].idx ELSE wf[id].idx - 1)
         /\ id \in DOMAIN approvals
         /\ approvals[id].status = "processing"

\* the invoice id a step belongs to: the id of the tool call, or the id of the
\* execution that took a workflow step or whose .then callback ran; none for
\* a step that only lets time pass
StepOf ==
  IF reply'.tool # "none" THEN {reply'.id}
  ELSE {id \in InvoiceIds : wf'[id].pc # wf[id].pc \/ wf'[id].idx # wf[id].idx
                            \/ (wf[id].pc = "sleep" /\ wf'[id].slept < wf[id].slept)
                            \/ thens'[id] # thens[id]}

\* C29: a tool call or workflow step of invoice a leaves the record of every
\* other invoice b unchanged (status, invoice and result), and leaves the
\* execution, the payments and the recorded decisions of b unchanged.
C29_OtherInvoicesUntouched ==
  [][\A a \in StepOf : \A b \in InvoiceIds \ {a} :
       /\ (b \in DOMAIN approvals') = (b \in DOMAIN approvals)
       /\ b \in DOMAIN approvals => approvals'[b] = approvals[b]
       /\ wf'[b] = wf[b]
       /\ paid'[b] = paid[b]
       /\ thens'[b] = thens[b]
       /\ approveOk'[b] = approveOk[b]
       /\ rejectOk'[b] = rejectOk[b]]_vars

\* C29 witness: INV-1 has been submitted, approved, paid and has its result
\* recorded while the record of INV-2 is still the pending one of its submit
C29_Witness ==
  \E a, b \in DOMAIN approvals :
    /\ a # b
    /\ approvals[a].status = "completed"
    /\ approvals[a].result = Completed(Confirmations(<<Consulting, Expenses>>))
    /\ approvals[b] = [status |-> "pending", invoice |-> Invoice(b, <<>>),
                       result |-> undefined, obj |-> 1]

\* C30: a check_invoice_status call, whether it succeeds or fails with not
\* found, changes nothing but its own response: every record, every
\* execution, the pending callbacks, the payments and the stored step results
\* are the same after the call as before it.
C30_StatusPureRead ==
  [][reply'.tool = "check_invoice_status"
       => /\ reply'.outcome \in {"ok", "not found"}
          /\ (reply'.outcome = "ok") = (reply'.id \in DOMAIN approvals)
          /\ approvals' = approvals
          /\ wf' = wf
          /\ thens' = thens
          /\ paid' = paid
          /\ steps' = steps
          /\ approveOk' = approveOk
          /\ rejectOk' = rejectOk]_vars

\* C30 witness: check_invoice_status has answered for a completed invoice
\* with its result while the payment of another invoice is in flight
C30_Witness ==
  /\ reply.tool = "check_invoice_status"
  /\ reply.outcome = "ok"
  /\ reply.status = "completed"
  /\ reply.result = Completed(Confirmations(<<Consulting, Expenses>>))
  /\ \E other \in InvoiceIds \ {reply.id} : wf[other].pc = "paying"

\* C23: a decision recorded while the workflow waits in its poll loop is acted
\* on by the workflow's next poll, which is due one polling interval after
\* the last one: a status approved with the workflow waiting is next changed
\* by the workflow, to processing (completed at once for an invoice without
\* lines), and a status rejected with the workflow waiting is not changed
\* before the workflow returns.
C23_DecisionNoticedAtNextPoll ==
  [][\A id \in DOMAIN approvals :
       wf[id].pc = "sleep"
         => /\ (approvals[id].status = "approved"
                  /\ approvals'[id].status # "approved")
                 => /\ approvals'[id].status \in {"processing", "completed"}
                    /\ wf'[id].pc # "sleep"
            /\ (approvals[id].status = "rejected" /\ wf'[id].pc = "sleep")
                 => approvals'[id].status = "rejected"]_vars

\* C28: in a process that keeps running, every submitted invoice eventually
\* has status completed or rejected.
C28_EventuallyTerminal ==
  \A id \in InvoiceIds :
    [](id \in DOMAIN approvals
         => <>(id \in DOMAIN approvals /\ approvals[id].status \in Terminal))

\* C21: two distinct get_forecast requests, also two with the same latitude
\* and longitude, never run under the same execution id.
C21_OwnExecutionId ==
  \A r1, r2 \in 1..Len(requests) :
    r1 # r2 => requests[r1].executionId # requests[r2].executionId

\* C24: getForecast fetches the points URL of its coordinates first and the
\* forecast URL only after the points fetch has ended with data; the forecast
\* fetch is made with the URL the points response named; and an execution
\* whose points fetch failed or returned no data has made no forecast fetch
\* and has failed or returned the 'Unable to fetch forecast data' text.
C24_PointsBeforeForecast ==
  \A e \in DOMAIN forecasts :
    LET f == forecasts[e]
        n == Len(fetched[e])
    IN /\ n <= 2
       /\ f.pc = "invoked" => n = 0
       /\ n >= 1 => fetched[e][1] = pointsUrl(e[1], e[2])
       /\ f.pc = "points" => n = 1
       /\ n = 2 => /\ f.pc \in {"forecast", "done", "failed"}
                   /\ f.pointsData \in ForecastUrls
                   /\ fetched[e][2] = f.pointsData
       /\ f.pointsData = "null"
            => /\ n <= 1
               /\ f.pc \in {"done", "failed"} => f.ret \in {UnableData, undefined}
               /\ (f.pc = "done") = (f.ret = UnableData)

\* C24 witness: one execution has fetched the points URL and then the forecast
\* URL of the response and returned a forecast, another has returned the
\* 'Unable to fetch forecast data' text after its points fetch alone
C24_Witness ==
  \E e1, e2 \in DOMAIN forecasts :
    /\ forecasts[e1].pc = "done"
    /\ forecasts[e1].ret.kind = "forecasts"
    /\ fetched[e1] = <<pointsUrl(e1[1], e1[2]), forecasts[e1].pointsData>>
    /\ forecasts[e2].pc = "done"
    /\ forecasts[e2].ret = UnableData
    /\ fetched[e2] = <<pointsUrl(e2[1], e2[2])>>

\* C27: the text getForecast returns for a forecast response holds the
\* entries of the first periods of the response in their order, min(k, 5) of
\* them for a response with k periods: entry i is the text of period i.
C27_FirstFivePeriods ==
  [][\A e \in DOMAIN forecasts, k \in 0..MaxPeriods :
       (forecasts[e].pc = "forecast" /\ forecasts'[e].pc = "done"
          /\ forecasts'[e].ret = ForecastText(Periods(k)))
         => LET entries == forecasts'[e].ret.payments
            IN /\ Len(entries) = IF k < 5 THEN k ELSE 5
               /\ \A i \in 1..Len(entries) :
                    entries[i] = FormatPeriod(Periods(k)[i])]_vars

\* C27 witness: a response with more than five periods was answered with the
\* entries of the periods 1 to 5
C27_Witness ==
  \E r \in 1..Len(requests) :
    /\ requests[r].answered
    /\ reply = [Ok("get_forecast", "")
                  EXCEPT !.request = r,
                         !.result = ForecastText(Periods(MaxPeriods))]
    /\ Len(reply.result.payments) = 5
    /\ reply.result.payments[5] = FormatPeriod(Periods(MaxPeriods)[5])

\* the tool names of the two servers
ToolNames ==
  {"submit_invoice", "approve_invoice", "reject_invoice",
   "check_invoice_status", "get_forecast"}

\* C25: a tool call with a name that is not a tool of the server fails with
\* the 'Unknown tool' error and changes nothing: no record, no execution of
\* processInvoice or getForecast, no callback, no payment and no fetch.
C25_UnknownToolFails ==
  [][(reply'.tool \notin ToolNames \cup {"none"})
       => /\ reply' = Err(reply'.tool, "", "Unknown tool")
          /\ ivars' = ivars
          /\ wvars' = wvars]_vars

\* C25 witness: a call of an unknown tool has failed while an invoice is
\* pending and its workflow waits
C25_Witness ==
  /\ reply.tool \in UnknownTools
  /\ reply.outcome = "Unknown tool"
  /\ \E id \in DOMAIN approvals :
       approvals[id].status = "pending" /\ wf[id].pc = "sleep"

\* C31: a stored record has a result only if its status is terminal, and a
\* check_invoice_status response that shows a Result section shows the status
\* completed or rejected.
C31_ResultOnlyIfTerminal ==
  /\ \A id \in DOMAIN approvals :
       Truthy(approvals[id].result) => approvals[id].status \in Terminal
  /\ (reply.tool = "check_invoice_status" /\ reply.outcome = "ok"
        /\ reply.result # undefined)
     => reply.status \in Terminal

\* the status stored for id, "undefined" when there is no record
StatusOf(m, id) == IF id \in DOMAIN m THEN m[id].status ELSE "undefined"

\* C32: the value processInvoice returns agrees with the stored status at the
\* moment it returns: it returns a COMPLETED text if and only if the status
\* is completed and all payment steps ran, and it returns a REJECTED... text
\* only when the status is rejected.
C32_ReturnAgreesWithStatus ==
  [][\A id \in InvoiceIds :
       Returns(id) =>
         LET ret == wf'[id].ret
             status == StatusOf(approvals', id)
         IN /\ (ret.kind = "COMPLETED")
                 <=> (status = "completed"
                        /\ ret.payments = Confirmations(wf[id].invoice.lines))
            /\ (ret \in {RejectedByUser, RejectedTimeout, RejectedPlain})
                 => status = "rejected"]_vars

\* C33: the rejection reason is attributed correctly: an execution returns
\* 'REJECTED due to timeout' only if no reject_invoice call has succeeded for
\* its invoice and the timeout has elapsed with the invoice pending, and an
\* execution whose invoice a reject_invoice call has rejected returns
\* 'REJECTED by user', also when the rejection was recorded during the last
\* poll interval before the deadline.
C33_RejectionReason ==
  [][\A id \in InvoiceIds :
       Returns(id) =>
         /\ wf'[id].ret = RejectedTimeout
              => /\ ~rejectOk[id]
                 /\ wf[id].elapsed >= Timeout
                 /\ StatusOf(approvals, id) = "pending"
         /\ rejectOk[id] => wf'[id].ret = RejectedByUser]_vars

\* C34: for every invoice reported as completed, the payments that were run
\* are those of the invoice that check_invoice_status reports: the lines
\* paid are exactly the lines of the stored invoice, and the amounts paid sum
\* to the reported total.
C34_PaymentsMatchStoredInvoice ==
  /\ \A id \in DOMAIN approvals :
       approvals[id].status = "completed"
         => /\ paid[id] = approvals[id].invoice.lines
            /\ SumOfAmounts(paid[id]) = approvals[id].invoice.totalAmount
  /\ (reply.tool = "check_invoice_status" /\ reply.outcome = "ok"
        /\ reply.status = "completed")
     => reply.total = SumOfAmounts(paid[reply.id])
====
